---- MODULE Spec2Model ----
(***************************************************************************)
(* A model of the filestream container format: the stream Writer of        *)
(* encode.go (NewWriter, File, Directory, Close and the entry writer's     *)
(* Write and Close) and the stream Reader with the boolean Next            *)
(* (NewReader, Next, File, Err and FileReader.Read).                       *)
(*                                                                         *)
(* The wire is a sequence of symbols, each a string.  A symbol stands for  *)
(* one byte (NUL, LF, a body byte) or for one lexical token of a JSON      *)
(* record or one decimal number ("{", "path:", "420", ...).  Symbols are   *)
(* the unit of truncation and of buffering.                                *)
(***************************************************************************)
EXTENDS Integers, Sequences, FiniteSets, TLC

VARIABLES w, fws, wlast, nops, proto, r, frs, rlast, pipe

vars == <<w, fws, wlast, nops, proto, r, frs, rlast, pipe>>
wvars == <<w, fws, wlast, nops, proto>>
rvars == <<r, frs, rlast, pipe>>

(***************************************************************************)
(* Bounds of the model.                                                    *)
(***************************************************************************)
\* number of calls made on a Writer and its entry writers
MaxOps == 5
\* capacity of the bufio.Writer, in symbols (4096 bytes in the Go library)
BufSize == 8
\* number of files that EncodeFiles visits
MaxFiles == 2

(***************************************************************************)
(* Program constants.                                                      *)
(***************************************************************************)
fmtVersion == 0

NUL == "NUL"
LF == "LF"

\* error values; NoErr is nil
NoErr == ""
ErrSequencing == "attempted to open a file stream before finishing the previous"
ErrFileClosed == "writing to file that has already been closed"
ErrClosed == "filestream closed"
ErrIllegalPath == "illegal null character in file path"
ErrWriteInterrupted == "write interrupted"
ErrUnsupported == "unsupported compression algorithm"
ErrTerminate == "failed to terminate stream"

(***************************************************************************)
(* Inputs.                                                                 *)
(***************************************************************************)
\* "xFF" is a byte that is not valid UTF-8, "NUL" the byte 0x00
Paths == { <<"a">>, <<"xFF">>, <<"NUL">> }
\* An os.FileMode is modelled by its directory bit (os.ModeDir, bit 31) and
\* its permission bits; 420 is 0644.
FileOpts == { [perm |-> [dir |-> FALSE, bits |-> 0], user |-> <<>>, group |-> <<>>],
              [perm |-> [dir |-> FALSE, bits |-> 420], user |-> <<"u">>,
               group |-> <<"g">>] }
Datas == { <<>>, <<"x">>, <<"0", "NUL">> }
Algos == { "", "gzip", "zip" }

Min(a, b) == IF a < b THEN a ELSE b

HasNul(s) == \E i \in DOMAIN s : s[i] = NUL

\* os.FileMode.IsDir
IsDirMode(m) == m.dir

ZeroMode == [dir |-> FALSE, bits |-> 0]

\* the decimal form of a mode word, one symbol
ModeNumber(m) == IF m.dir THEN "ModeDir+" \o ToString(m.bits) ELSE ToString(m.bits)

IsPrefix(p, s) == Len(p) <= Len(s) /\ SubSeq(s, 1, Len(p)) = p

(***************************************************************************)
(* encoding/json, as used for the two header records.                      *)
(***************************************************************************)
\* one character of a Go string inside a JSON string: control characters
\* are escaped, bytes that are not valid UTF-8 become U+FFFD
JsonChar(c) == CASE c = NUL -> "u0000"
                 [] c = "xFF" -> "uFFFD"
                 [] OTHER -> c

JsonStr(s) == [i \in 1..Len(s) |-> JsonChar(s[i])]

Itoa(n) == ToString(n)

\* json.Encoder.Encode(fileHeader): the object, then a newline
EncFileHeader(h) ==
  <<"{", "path:">> \o JsonStr(h.path)
  \o (IF h.user # <<>> THEN <<"user:">> \o JsonStr(h.user) ELSE <<>>)
  \o (IF h.group # <<>> THEN <<"group:">> \o JsonStr(h.group) ELSE <<>>)
  \o (IF h.mode # ZeroMode THEN <<"mode:", ModeNumber(h.mode)>> ELSE <<>>)
  \o <<"}", LF>>

\* json.Encoder.Encode(streamHeader)
EncStreamHeader(v, c) ==
  <<"{", "version:", Itoa(v)>>
  \o (IF c # "" THEN <<"compression:", c>> ELSE <<>>)
  \o <<"}", LF>>

Sentinel == [path |-> <<NUL>>, user |-> <<>>, group |-> <<>>, mode |-> ZeroMode]


(***************************************************************************)
(* bufio.Writer over the sink (or over the compression wrapper).  st.out   *)
(* is every symbol the framing layer has written so far and st.flushed     *)
(* how many of them have left the buffer; st.direct is how many of them    *)
(* had left it for the sink itself when the buffer was reset onto the      *)
(* compression wrapper.                                                    *)
(***************************************************************************)
Buffered(st) == Len(st.out) - st.flushed

\* bufio.Writer.Write
BWrite(st, p) ==
  LET avail == BufSize - Buffered(st)
      out2 == st.out \o p
  IN IF Len(p) <= avail THEN [st EXCEPT !.out = out2]
     ELSE IF Buffered(st) = 0
       \* large write, empty buffer: written through
       THEN [st EXCEPT !.out = out2, !.flushed = Len(out2)]
       \* fill the buffer, flush it, go on with the rest
       ELSE LET rest == Len(p) - avail
            IN IF rest > BufSize
                 THEN [st EXCEPT !.out = out2, !.flushed = Len(out2)]
                 ELSE [st EXCEPT !.out = out2, !.flushed = Len(out2) - rest]

\* bufio.Writer.WriteByte
BWriteByte(st, c) ==
  IF BufSize - Buffered(st) <= 0
    THEN [st EXCEPT !.flushed = Len(st.out), !.out = st.out \o <<c>>]
    ELSE [st EXCEPT !.out = st.out \o <<c>>]

\* bufio.Writer.WriteString of a decimal number (one symbol)
BWriteString(st, s) == BWriteByte(st, s)

\* bufio.Writer.Flush
BFlush(st) == [st EXCEPT !.flushed = Len(st.out)]

(***************************************************************************)
(* The compression wrappers.  A compressed stream is modelled as a         *)
(* container: "ZH" (the container's header), the symbols handed to the     *)
(* wrapper, and "ZT" (its trailer, written by the wrapper's Close).        *)
(***************************************************************************)
\* a compress and a decompress that know one more algorithm
SupportedMore == { "gzip", "zip" }

\* the algorithms of compress and decompress that the model carries (lz4 is
\* left out)
Supported == { "gzip" }

\* the bytes that have reached the raw sink
Sink(st) ==
  IF ~st.made THEN <<>>
  ELSE IF st.comp = "" THEN SubSeq(st.out, 1, st.flushed)
  ELSE LET h == st.direct
           zl == IF st.zend > 0 THEN st.zend ELSE st.flushed
       IN SubSeq(st.out, 1, Min(h, st.flushed))
          \o (IF zl > h \/ st.zend > 0
                THEN <<"ZH">> \o SubSeq(st.out, h + 1, zl) ELSE <<>>)
          \o (IF st.zend > 0 THEN <<"ZT">> ELSE <<>>)
          \o [j \in 1..st.zjunk |-> "ZG"]

(***************************************************************************)
(* Writer (encode.go).                                                     *)
(***************************************************************************)
NoWriter == [made |-> FALSE, comp |-> "", curFile |-> 0, writing |-> FALSE,
             closed |-> FALSE, out |-> <<>>, flushed |-> 0, zend |-> 0,
             ncloses |-> 0, zjunk |-> 0, berr |-> FALSE, direct |-> 0]

NoLast == [op |-> "none", h |-> 0, err |-> NoErr, n |-> 0, emit |-> <<>>,
           fresh |-> FALSE, after |-> FALSE, pw |-> FALSE, arg |-> ""]

\* Writer.startFile
startFile(st, hdr) ==
  IF st.closed THEN [w |-> st, err |-> ErrClosed]
  ELSE IF HasNul(hdr.path) THEN [w |-> st, err |-> ErrIllegalPath]
  ELSE [w |-> BWriteByte(BWrite(st, EncFileHeader(hdr)), NUL), err |-> NoErr]

\* a write that announces one byte more than the chunk holds
writeOver(st, file, dat) ==
  IF st.closed THEN [w |-> st, n |-> 0, err |-> ErrClosed]
  ELSE IF file # st.curFile \/ ~st.writing
    THEN [w |-> st, n |-> 0, err |-> ErrFileClosed]
  ELSE [w |-> BWrite(BWriteByte(BWriteString(st, Itoa(Len(dat) + 1)), NUL), dat),
        n |-> Len(dat), err |-> NoErr]

\* a write that does not check which entry it is made for
writeStale(st, file, dat) ==
  IF st.closed THEN [w |-> st, n |-> 0, err |-> ErrClosed]
  ELSE [w |-> BWrite(BWriteByte(BWriteString(st, Itoa(Len(dat))), NUL), dat),
        n |-> Len(dat), err |-> NoErr]

\* Writer.write
write(st, file, dat) ==
  IF st.closed THEN [w |-> st, n |-> 0, err |-> ErrClosed]
  ELSE IF file # st.curFile \/ ~st.writing
    THEN [w |-> st, n |-> 0, err |-> ErrFileClosed]
  ELSE [w |-> BWrite(BWriteByte(BWriteString(st, Itoa(Len(dat))), NUL), dat),
        n |-> Len(dat), err |-> NoErr]

\* a Write that does not record that the header has been started
fwWriteRestart(st, fw, data) ==
  LET s1 == IF ~fw.started THEN startFile(st, fw.hdr)
            ELSE [w |-> st, err |-> NoErr]
  IN IF s1.err # NoErr THEN [w |-> s1.w, fw |-> fw, n |-> 0, err |-> s1.err]
     ELSE IF Len(data) = 0 THEN [w |-> s1.w, fw |-> fw, n |-> 0, err |-> NoErr]
     ELSE LET s2 == write(s1.w, fw.fileNo, data)
          IN [w |-> s2.w, fw |-> fw, n |-> s2.n, err |-> s2.err]

\* a Write that passes a zero-length slice on to Writer.write
fwWriteEmpty(st, fw, data) ==
  LET s1 == IF ~fw.started THEN startFile(st, fw.hdr)
            ELSE [w |-> st, err |-> NoErr]
      fw1 == [fw EXCEPT !.started = TRUE]
  IN IF s1.err # NoErr THEN [w |-> s1.w, fw |-> fw1, n |-> 0, err |-> s1.err]
     ELSE LET s2 == write(s1.w, fw.fileNo, data)
          IN [w |-> s2.w, fw |-> fw1, n |-> s2.n, err |-> s2.err]

\* fileWriter.Write
fwWrite(st, fw, data) ==
  LET s1 == IF ~fw.started THEN startFile(st, fw.hdr)
            ELSE [w |-> st, err |-> NoErr]
      fw1 == [fw EXCEPT !.started = TRUE]
  IN IF s1.err # NoErr THEN [w |-> s1.w, fw |-> fw1, n |-> 0, err |-> s1.err]
     ELSE IF Len(data) = 0 THEN [w |-> s1.w, fw |-> fw1, n |-> 0, err |-> NoErr]
     ELSE LET s2 == write(s1.w, fw.fileNo, data)
          IN [w |-> s2.w, fw |-> fw1, n |-> s2.n, err |-> s2.err]

\* a Close that ends the entry without the chunk of length zero
fwCloseUnterminated(st, fw) ==
  LET a == IF ~fw.started THEN fwWrite(st, fw, <<>>)
           ELSE [w |-> st, fw |-> fw, n |-> 0, err |-> NoErr]
  IN IF a.err # NoErr THEN [w |-> a.w, fw |-> a.fw, err |-> a.err]
     ELSE IF a.w.closed THEN [w |-> a.w, fw |-> a.fw, err |-> ErrClosed]
     ELSE [w |-> [a.w EXCEPT !.writing = FALSE], fw |-> a.fw, err |-> NoErr]

\* fileWriter.Close
fwClose(st, fw) ==
  LET a == IF ~fw.started THEN fwWrite(st, fw, <<>>)
           ELSE [w |-> st, fw |-> fw, n |-> 0, err |-> NoErr]
  IN IF a.err # NoErr THEN [w |-> a.w, fw |-> a.fw, err |-> a.err]
     ELSE LET s2 == write(a.w, fw.fileNo, <<>>)
          IN IF s2.err # NoErr THEN [w |-> s2.w, fw |-> a.fw, err |-> s2.err]
             ELSE [w |-> [s2.w EXCEPT !.writing = FALSE], fw |-> a.fw,
                   err |-> NoErr]

\* a File that opens an entry whether or not one is open
FileUnchecked(st, path, opts) ==
  [w |-> [st EXCEPT !.writing = TRUE, !.curFile = st.curFile + 1],
   ok |-> TRUE, err |-> NoErr,
   fw |-> [fileNo |-> st.curFile + 1, started |-> FALSE,
           hdr |-> [path |-> path, mode |-> opts.perm,
                    user |-> opts.user, group |-> opts.group]]]

\* Writer.File: the new state and the entry writer, or an error
File(st, path, opts) ==
  IF st.writing THEN [w |-> st, ok |-> FALSE, err |-> ErrSequencing]
  ELSE [w |-> [st EXCEPT !.writing = TRUE, !.curFile = st.curFile + 1],
        ok |-> TRUE, err |-> NoErr,
        fw |-> [fileNo |-> st.curFile + 1, started |-> FALSE,
                hdr |-> [path |-> path, mode |-> opts.perm,
                         user |-> opts.user, group |-> opts.group]]]

\* opts.Permissions |= os.ModeDir
OrModeDir(opts) ==
  [opts EXCEPT !.perm.dir = TRUE]

\* what the model adds to an entry writer: whether the caller holds it, the
\* body written through it, the symbols emitted through it, whether its
\* Close has succeeded, and whether a File or Directory call was refused
\* while it was the open entry
Track(fw, held) ==
  [fileNo |-> fw.fileNo, started |-> fw.started, hdr |-> fw.hdr,
   held |-> held, body |-> <<>>, wire |-> <<>>, done |-> FALSE, rej |-> FALSE]

Refused(fs, st) == [fs EXCEPT ![st.curFile].rej = TRUE]

Emitted(st, st2) == SubSeq(st2.out, Len(st.out) + 1, Len(st2.out))

Conforms(err) == proto /\ err = NoErr /\ ~w.closed

\* bufio.Writer.Reset onto the wrapper: what is still buffered is dropped
BReset(st) == [st EXCEPT !.out = SubSeq(st.out, 1, st.flushed),
                         !.direct = st.flushed]

\* a NewWriter that does not flush the stream header before the Reset
newWriterUnflushed(c) ==
  LET s0 == [NoWriter EXCEPT !.made = TRUE, !.comp = c]
      s1 == BWriteByte(BWrite(s0, EncStreamHeader(0, c)), NUL)
  IN IF c # "" THEN BReset(s1) ELSE s1

\* NewWriter, once the compressor has been obtained
newWriter(c) ==
  LET s0 == [NoWriter EXCEPT !.made = TRUE, !.comp = c]
      s1 == BWriteByte(BWrite(s0, EncStreamHeader(0, c)), NUL)
  IN IF c # "" THEN BReset(BFlush(s1)) ELSE s1

NewWriter(c) ==
  /\ ~w.made /\ wlast.op = "none"
  /\ IF c # "" /\ c \notin Supported
       THEN /\ wlast' = [NoLast EXCEPT !.op = "NewWriter", !.err = ErrUnsupported,
                                        !.arg = c]
            /\ UNCHANGED w
       ELSE /\ w' = newWriter(c)
            /\ wlast' = [NoLast EXCEPT !.op = "NewWriter",
                                        !.emit = newWriter(c).out, !.arg = c]
  /\ UNCHANGED <<fws, nops, proto, rvars>>

WFile(p, o) ==
  /\ w.made /\ nops < MaxOps
  /\ nops' = nops + 1
  /\ LET res == File(w, p, o)
     IN /\ w' = res.w
        /\ fws' = IF res.ok THEN Append(fws, Track(res.fw, TRUE))
                   ELSE Refused(fws, w)
        /\ wlast' = [NoLast EXCEPT !.op = "File", !.err = res.err,
                       !.h = IF res.ok THEN res.fw.fileNo ELSE 0,
                       !.emit = Emitted(w, res.w),
                       !.after = w.closed, !.pw = w.writing]
        /\ proto' = (Conforms(res.err) /\ ~HasNul(p) /\ ~IsDirMode(o.perm))
  /\ UNCHANGED rvars

WDirectory(p, o) ==
  /\ w.made /\ nops < MaxOps
  /\ nops' = nops + 1
  /\ LET res == File(w, p, OrModeDir(o))
         cl == IF res.ok THEN fwClose(res.w, res.fw)
               ELSE [w |-> res.w, err |-> res.err]
     IN /\ w' = cl.w
        /\ fws' = IF res.ok
                    THEN Append(fws, [Track(cl.fw, FALSE) EXCEPT
                                        !.wire = Emitted(w, cl.w),
                                        !.done = (cl.err = NoErr)])
                    ELSE Refused(fws, w)
        /\ wlast' = [NoLast EXCEPT !.op = "Directory", !.err = cl.err,
                       !.h = IF res.ok THEN res.fw.fileNo ELSE 0,
                       !.emit = Emitted(w, cl.w),
                       !.after = w.closed, !.pw = w.writing]
        /\ proto' = (Conforms(cl.err) /\ ~HasNul(p))
  /\ UNCHANGED rvars

FwWrite(h, d) ==
  /\ w.made /\ nops < MaxOps
  /\ nops' = nops + 1
  /\ h \in DOMAIN fws /\ fws[h].held
  /\ LET res == fwWrite(w, fws[h], d)
     IN /\ w' = res.w
        /\ fws' = [fws EXCEPT ![h].started = res.fw.started,
                     ![h].wire = @ \o Emitted(w, res.w),
                     ![h].body = IF res.err = NoErr THEN @ \o d ELSE @]
        /\ wlast' = [NoLast EXCEPT !.op = "Write", !.err = res.err, !.h = h,
                       !.n = res.n, !.emit = Emitted(w, res.w),
                       !.fresh = ~fws[h].started,
                       !.after = w.closed, !.pw = w.writing]
        /\ proto' = Conforms(res.err)
  /\ UNCHANGED rvars

FwClose(h) ==
  /\ w.made /\ nops < MaxOps
  /\ nops' = nops + 1
  /\ h \in DOMAIN fws /\ fws[h].held
  /\ LET res == fwClose(w, fws[h])
     IN /\ w' = res.w
        /\ fws' = [fws EXCEPT ![h].started = res.fw.started,
                     ![h].wire = @ \o Emitted(w, res.w),
                     ![h].done = (@ \/ res.err = NoErr)]
        /\ wlast' = [NoLast EXCEPT !.op = "EntryClose", !.err = res.err, !.h = h,
                       !.emit = Emitted(w, res.w),
                       !.fresh = ~fws[h].started,
                       !.after = w.closed, !.pw = w.writing]
        /\ proto' = Conforms(res.err)
  /\ UNCHANGED rvars

\* a Close that closes the wrapper before it flushes the framing buffer
CloseUnflushed(st, late) ==
  LET c1 == [st EXCEPT !.closed = TRUE]
  IN IF st.writing THEN [w |-> c1, err |-> ErrWriteInterrupted]
     ELSE IF st.berr THEN [w |-> c1, err |-> ErrTerminate]
     ELSE LET s3 == BWriteByte(BWrite(c1, EncFileHeader(Sentinel)), NUL)
          IN IF st.comp = "" THEN [w |-> s3, err |-> NoErr]
             ELSE IF st.zend = 0
               THEN [w |-> [s3 EXCEPT !.zend = s3.flushed, !.ncloses = @ + 1],
                     err |-> NoErr]
             ELSE IF late = "reject"
               THEN [w |-> [s3 EXCEPT !.berr = TRUE], err |-> ErrTerminate]
             ELSE [w |-> [s3 EXCEPT !.zjunk = @ + 1, !.ncloses = @ + 1],
                   err |-> NoErr]

\* a Close that ends the stream whether or not an entry is open
CloseForced(st, late) ==
  LET c1 == [st EXCEPT !.closed = TRUE]
  IN IF st.berr THEN [w |-> c1, err |-> ErrTerminate]
     ELSE LET s3 == BFlush(BWriteByte(BWrite(c1, EncFileHeader(Sentinel)), NUL))
          IN IF st.comp = "" THEN [w |-> s3, err |-> NoErr]
             ELSE IF st.zend = 0
               THEN [w |-> [s3 EXCEPT !.zend = Len(s3.out), !.ncloses = @ + 1],
                     err |-> NoErr]
             ELSE IF late = "reject"
               THEN [w |-> [s3 EXCEPT !.berr = TRUE], err |-> ErrTerminate]
             ELSE [w |-> [s3 EXCEPT !.zjunk = @ + 1, !.ncloses = @ + 1],
                   err |-> NoErr]

\* Writer.Close.  late: what a wrapper that is already closed does with the
\* bytes flushed into it ("reject": the write fails; "accept": it emits them)
Close(st, late) ==
  LET c1 == [st EXCEPT !.closed = TRUE]
  IN IF st.writing THEN [w |-> c1, err |-> ErrWriteInterrupted]
     ELSE IF st.berr THEN [w |-> c1, err |-> ErrTerminate]
     ELSE LET s3 == BFlush(BWriteByte(BWrite(c1, EncFileHeader(Sentinel)), NUL))
          IN IF st.comp = "" THEN [w |-> s3, err |-> NoErr]
             ELSE IF st.zend = 0
               THEN [w |-> [s3 EXCEPT !.zend = Len(s3.out), !.ncloses = @ + 1],
                     err |-> NoErr]
             ELSE IF late = "reject"
               THEN [w |-> [s3 EXCEPT !.berr = TRUE], err |-> ErrTerminate]
             ELSE [w |-> [s3 EXCEPT !.zjunk = @ + 1, !.ncloses = @ + 1],
                   err |-> NoErr]

WClose ==
  /\ w.made /\ nops < MaxOps
  /\ nops' = nops + 1
  /\ \E late \in {"reject", "accept"} :
       LET res == Close(w, late)
       IN /\ w' = res.w
          /\ wlast' = [NoLast EXCEPT !.op = "Close", !.err = res.err,
                         !.emit = Emitted(w, res.w),
                         !.after = w.closed, !.pw = w.writing]
          /\ proto' = Conforms(res.err)
  /\ UNCHANGED <<fws, rvars>>

(***************************************************************************)
(* EncodeFiles (fs.go): the function that filepath.Walk calls for each     *)
(* file, with the lookups of headers.go.  A file on disk has a path, a     *)
(* mode, the ids of its owner and of its group, and its content.           *)
(***************************************************************************)
\* the user and the group databases: the name for each id that exists
Users == [i \in {0, 2} |-> IF i = 0 THEN <<"u">> ELSE <<"v">>]
Groups == [i \in {0, 1} |-> IF i = 0 THEN <<"g">> ELSE <<"h">>]

Disk == { [path |-> <<"a">>, mode |-> [dir |-> d, bits |-> 420],
           uid |-> o[1], gid |-> o[2], data |-> <<"x">>] :
           d \in BOOLEAN, o \in { <<0, 0>>, <<0, 1>>, <<2, 1>> } }

EncodeOpts == { [perm |-> FALSE, user |-> FALSE, group |-> FALSE],
                [perm |-> FALSE, user |-> FALSE, group |-> TRUE],
                [perm |-> TRUE, user |-> TRUE, group |-> TRUE] }

ErrLookup == "user: unknown id"

\* getUser
getUser(f) == IF f.uid \in DOMAIN Users
                THEN [ok |-> TRUE, name |-> Users[f.uid]]
                ELSE [ok |-> FALSE, name |-> <<>>]

\* getGroup
getGroup(f) == IF f.uid \in DOMAIN Groups
                 THEN [ok |-> TRUE, name |-> Groups[f.uid]]
                 ELSE [ok |-> FALSE, name |-> <<>>]

\* the entry of one file: File or Directory with the options fo, the copy
\* of the content, and the Close of the entry
encodeEntry(st, f, fo) ==
  LET res == File(st, f.path, IF f.mode.dir THEN OrModeDir(fo) ELSE fo)
      cp == IF res.ok /\ ~f.mode.dir /\ f.data # <<>>
              THEN fwWrite(res.w, res.fw, f.data)
              ELSE [w |-> res.w, fw |-> IF res.ok THEN res.fw ELSE <<>>,
                    n |-> 0, err |-> res.err]
      cl == IF cp.err = NoErr THEN fwClose(cp.w, cp.fw)
            ELSE [w |-> cp.w, fw |-> cp.fw, err |-> cp.err]
  IN [w |-> cl.w, ok |-> res.ok, fw |-> cl.fw, err |-> cl.err]

\* the walk function of EncodeFiles on the file f
encodeFile(st, f, eo) ==
  LET u == IF eo.user THEN getUser(f) ELSE [ok |-> TRUE, name |-> <<>>]
      g == IF eo.group THEN getGroup(f) ELSE [ok |-> TRUE, name |-> <<>>]
  IN IF ~u.ok \/ ~g.ok THEN [w |-> st, ok |-> FALSE, err |-> ErrLookup]
     ELSE encodeEntry(st, f, [perm |-> IF eo.perm THEN f.mode ELSE ZeroMode,
                              user |-> u.name, group |-> g.name])

WEncode(f, eo) ==
  /\ w.made /\ nops < MaxFiles
  /\ nops' = nops + 1
  /\ \E res \in { encodeFile(w, f, eo) } :
       /\ w' = res.w
       /\ fws' = IF res.ok
                   THEN Append(fws, [Track(res.fw, FALSE) EXCEPT
                                       !.wire = Emitted(w, res.w),
                                       !.body = IF res.err = NoErr /\ ~f.mode.dir
                                                  THEN f.data ELSE <<>>,
                                       !.done = (res.err = NoErr)])
                   ELSE fws
       /\ wlast' = [NoLast EXCEPT !.op = "Encode", !.err = res.err,
                      !.h = IF res.ok THEN res.fw.fileNo ELSE 0,
                      !.emit = Emitted(w, res.w),
                      !.after = w.closed, !.pw = w.writing,
                      !.arg = [file |-> f, opts |-> eo]]
       /\ proto' = Conforms(res.err)
  /\ UNCHANGED rvars

NoReader == [made |-> FALSE, src |-> <<>>, how |-> "none", closed |-> FALSE,
             lax |-> TRUE, early |-> FALSE, failed |-> FALSE, hit |-> FALSE]

Init ==
  /\ w = NoWriter /\ fws = <<>> /\ wlast = NoLast /\ nops = 0 /\ proto = TRUE
  /\ r = NoReader /\ frs = <<>> /\ rlast = [op |-> "none"]
  /\ pipe = [recv |-> 0, closed |-> FALSE]

NextW ==
  \/ \E c \in Algos : NewWriter(c)
  \/ \E p \in Paths, o \in FileOpts : WFile(p, o)
  \/ \E p \in Paths, o \in FileOpts : WDirectory(p, o)
  \/ \E h \in DOMAIN fws, d \in Datas : FwWrite(h, d)
  \/ \E h \in DOMAIN fws : FwClose(h)
  \/ WClose

SpecW == Init /\ [][NextW]_vars

\* EncodeFiles on a Writer
NextFs ==
  \/ \E c \in Algos : NewWriter(c)
  \/ \E f \in Disk, eo \in EncodeOpts : WEncode(f, eo)
  \/ WClose

SpecFs == Init /\ [][NextFs]_vars


(***************************************************************************)
(* encoding/json, decoding.  jd is the text of a record, without its NUL.  *)
(***************************************************************************)
Keys == { "path:", "user:", "group:", "mode:", "version:", "compression:" }
Structural == Keys \cup { "{", "}", LF, NUL, "ZH", "ZT", "ZG" }

MinOf(S) == CHOOSE x \in S : \A y \in S : x <= y
MaxOf(S) == CHOOSE x \in S : \A y \in S : x >= y

\* a character of a JSON string, decoded
UnJsonChar(t) == CASE t = "u0000" -> NUL
                   [] t = "xFF" -> "uFFFD"
                   [] OTHER -> t

UnJsonStr(s) == [i \in 1..Len(s) |-> UnJsonChar(s[i])]

Modes == { [dir |-> d, bits |-> b] : d \in BOOLEAN, b \in {0, 420} }

\* the decimal numbers the model can parse
Decimal == [n \in -9..20 |-> ToString(n)]

\* strconv.Atoi
Atoi(t) ==
  IF \E n \in DOMAIN Decimal : Decimal[n] = t
    THEN [ok |-> TRUE, n |-> CHOOSE n \in DOMAIN Decimal : Decimal[n] = t]
    ELSE [ok |-> FALSE, n |-> 0]

ModeWord == [m \in Modes |-> ModeNumber(m)]

\* the value of the member of a JSON object whose key is at position i of
\* inner; kp: the positions of the keys
valueAt(inner, kp, i) ==
  SubSeq(inner, i + 1, MinOf({ j \in kp \cup {Len(inner) + 1} : j > i }) - 1)

\* the value of the last member with key k (<<>> when the key is absent)
lastValue(inner, kp, k) ==
  IF \A i \in kp : inner[i] # k THEN <<>>
  ELSE valueAt(inner, kp, MaxOf({ i \in kp : inner[i] = k }))

\* the members between the braces of a JSON object
members(inner, kp) ==
  IF \/ (inner # <<>> /\ 1 \notin kp)
     \/ \E i \in DOMAIN inner : inner[i] \in Structural \ Keys
    THEN [ok |-> FALSE]
    ELSE [ok |-> TRUE, get |-> [k \in Keys |-> lastValue(inner, kp, k)],
          has |-> [k \in Keys |-> \E i \in kp : inner[i] = k]]

\* the JSON object whose text runs from position a to position b of jd
object(jd, a, b) ==
  IF a = b \/ jd[a] # "{" \/ jd[b] # "}" THEN [ok |-> FALSE]
  ELSE members(SubSeq(jd, a + 1, b - 1),
               { i - a : i \in { x \in (a + 1)..(b - 1) : jd[x] \in Keys } })

\* the members of a JSON object: ok, and for each key the value of its last
\* occurrence
ParseObject(jd) ==
  IF \A i \in DOMAIN jd : jd[i] = LF THEN [ok |-> FALSE]
  ELSE object(jd, MinOf({ i \in DOMAIN jd : jd[i] # LF }),
                  MaxOf({ i \in DOMAIN jd : jd[i] # LF }))

\* the file modes that a mode member stands for
modesOf(o) ==
  IF o.ok THEN { x \in Modes : <<ModeWord[x]>> = o.get["mode:"] } ELSE {}

\* the fileHeader that the members of an object give
fileHeaderOf(o, ms) ==
  IF ~o.ok THEN [ok |-> FALSE]
  ELSE IF o.has["mode:"] /\ ms = {} THEN [ok |-> FALSE]
  ELSE [ok |-> TRUE,
        hdr |-> [path |-> UnJsonStr(o.get["path:"]),
                 user |-> UnJsonStr(o.get["user:"]),
                 group |-> UnJsonStr(o.get["group:"]),
                 mode |-> IF o.has["mode:"] THEN CHOOSE x \in ms : TRUE
                          ELSE ZeroMode]]

\* the fileHeader that a parsed object gives
headerOf(o) == fileHeaderOf(o, modesOf(o))

\* json.Unmarshal into a fileHeader
ParseFileHeader(jd) == headerOf(ParseObject(jd))

\* the streamHeader that the members of an object give
streamHeaderOf(o) ==
  IF ~o.ok THEN [ok |-> FALSE]
  ELSE IF o.has["version:"]
          /\ (Len(o.get["version:"]) # 1 \/ ~Atoi(o.get["version:"][1]).ok)
    THEN [ok |-> FALSE]
  ELSE IF Len(o.get["compression:"]) > 1 THEN [ok |-> FALSE]
  ELSE [ok |-> TRUE,
        version |-> IF o.has["version:"] THEN Atoi(o.get["version:"][1]).n
                    ELSE 0,
        comp |-> IF o.get["compression:"] = <<>> THEN ""
                 ELSE o.get["compression:"][1]]

\* json.Unmarshal into a streamHeader
ParseStreamHeader(jd) == streamHeaderOf(ParseObject(jd))

(***************************************************************************)
(* Reader (the Reader with the boolean Next).                              *)
(***************************************************************************)
EOF == "EOF"
ErrUnexpectedEOF == "unexpected EOF"
ErrNotReady == "requested next file before finishing previous"
ErrExcess == "excess data"
ErrDirBody == "expected empty body for directory"
ErrJson == "json"
ErrAtoi == "strconv.Atoi"
ErrVersion == "format not supported"
ErrGzip == "gzip: invalid"
Panic == "panic: slice bounds out of range"

NoRLast == [op |-> "none", h |-> 0, ret |-> FALSE, err |-> NoErr, n |-> 0]

\* the end of the source taken for no error
MapEOFNone(e) == IF e = EOF THEN NoErr ELSE e

\* if err == io.EOF { err = io.ErrUnexpectedEOF }
MapEOF(e) == IF e = EOF THEN ErrUnexpectedEOF ELSE e

\* decompress: the stream the decompressor yields from the raw bytes that
\* follow the stream header, and the error that ends it
Decompress(algo, raw) ==
  IF algo \notin Supported THEN [err |-> ErrUnsupported]
  ELSE IF raw = <<>> THEN [err |-> EOF]
  ELSE IF raw[1] # "ZH" THEN [err |-> ErrGzip]
  ELSE LET ts == { j \in DOMAIN raw : raw[j] = "ZT" }
       IN IF ts = {}
            THEN [err |-> NoErr, plain |-> Tail(raw), pend |-> ErrUnexpectedEOF]
            ELSE [err |-> NoErr, plain |-> SubSeq(raw, 2, MinOf(ts) - 1),
                  pend |-> IF MinOf(ts) = Len(raw) THEN EOF ELSE ErrGzip]

\* NewReader once the decompressor has been asked for
installed(rd, z) ==
  IF z.err # NoErr THEN [err |-> z.err]
  ELSE [err |-> NoErr, r |-> [rd EXCEPT !.plain = z.plain, !.pend = z.pend]]

\* a NewReader that takes any version
newReaderAnyVersion(src, raw, hdr) ==
  LET rd == [made |-> TRUE, ready |-> TRUE, closed |-> FALSE,
             comp |-> hdr.comp, ncloses |-> 0, err |-> NoErr, fr |-> 0,
             pos |-> 0, plain |-> raw, pend |-> EOF,
             src |-> src, how |-> "exact", lax |-> TRUE,
             early |-> FALSE, failed |-> FALSE, hit |-> FALSE]
  IN IF ~hdr.ok THEN [err |-> ErrJson]
     ELSE IF hdr.comp = "" THEN [err |-> NoErr, r |-> rd]
     ELSE installed(rd, Decompress(hdr.comp, raw))

\* NewReader once the stream header has been read: hdr is what Unmarshal
\* gave, raw the bytes after the header
newReader(src, raw, hdr) ==
  LET rd == [made |-> TRUE, ready |-> TRUE, closed |-> FALSE,
             comp |-> hdr.comp, ncloses |-> 0, err |-> NoErr, fr |-> 0,
             pos |-> 0, plain |-> raw, pend |-> EOF,
             src |-> src, how |-> "exact", lax |-> TRUE,
             early |-> FALSE, failed |-> FALSE, hit |-> FALSE]
  IN IF ~hdr.ok THEN [err |-> ErrJson]
     ELSE IF hdr.version > fmtVersion THEN [err |-> ErrVersion]
     ELSE IF hdr.comp = "" THEN [err |-> NoErr, r |-> rd]
     ELSE installed(rd, Decompress(hdr.comp, raw))

\* NewReader
NewReaderOf(src) ==
  LET js == { j \in DOMAIN src : src[j] = NUL }
  IN IF js = {} THEN [err |-> EOF]
     ELSE newReader(src, SubSeq(src, MinOf(js) + 1, Len(src)),
                    ParseStreamHeader(SubSeq(src, 1, MinOf(js) - 1)))

\* bufio.Reader.ReadString('\x00') on the decompressed stream
ReadString(st) ==
  LET js == { j \in (st.pos + 1)..Len(st.plain) : st.plain[j] = NUL }
  IN IF js = {} THEN [ok |-> FALSE, pos |-> Len(st.plain), err |-> st.pend]
     ELSE [ok |-> TRUE, pos |-> MinOf(js), err |-> NoErr,
           str |-> SubSeq(st.plain, st.pos + 1, MinOf(js) - 1)]

\* bufio.Reader.Read(dst[:want]).  k: how many bytes the call returns when
\* there are some (a Read may return fewer than asked); z: what a read into
\* an empty slice reports at the end of the stream
StreamRead(st, want, k, z) ==
  LET avail == Len(st.plain) - st.pos
      got == Min(k, Min(want, avail))
  IN IF want = 0
       THEN [n |-> 0, data |-> <<>>,
             err |-> IF avail = 0 /\ z = "end" THEN st.pend ELSE NoErr]
     ELSE IF avail = 0 THEN [n |-> 0, data |-> <<>>, err |-> st.pend]
     ELSE [n |-> got, err |-> NoErr,
           data |-> SubSeq(st.plain, st.pos + 1, st.pos + got)]

\* FileReader.Read once the stream's Read has returned sr
frData(st, fr, rem, sr) ==
  [r |-> [st EXCEPT !.pos = @ + sr.n], fr |-> [fr EXCEPT !.chunkRem = rem - sr.n],
   n |-> sr.n, data |-> sr.data, err |-> MapEOF(sr.err)]

\* FileReader.Read once the chunk is known to hold rem more bytes
frChunk(st, fr, rem, len, k, z) ==
  IF Min(rem, len) < 0
    THEN [r |-> st, fr |-> [fr EXCEPT !.chunkRem = rem], n |-> 0,
          data |-> <<>>, err |-> Panic]
    ELSE frData(st, fr, rem, StreamRead(st, Min(rem, len), k, z))

\* FileReader.Read at the start of a chunk: rs is what ReadString returned,
\* l what Atoi returned
frLength(st, fr, len, k, z, rs, l) ==
  IF ~rs.ok
    THEN [r |-> st, fr |-> fr, n |-> 0, data |-> <<>>, err |-> MapEOF(rs.err)]
  ELSE IF Len(rs.str) # 1 \/ ~l.ok
    THEN [r |-> st, fr |-> fr, n |-> 0, data |-> <<>>, err |-> ErrAtoi]
  ELSE IF l.n = 0
    THEN [r |-> [st EXCEPT !.ready = TRUE], fr |-> [fr EXCEPT !.done = TRUE],
          n |-> 0, data |-> <<>>, err |-> EOF]
  ELSE frChunk(st, fr, l.n, len, k, z)

\* FileReader.Read once the chunk length has been read: rs is what
\* ReadString returned
frToken(st, fr, len, k, z, rs) ==
  frLength([st EXCEPT !.pos = rs.pos], fr, len, k, z, rs,
           IF rs.ok /\ Len(rs.str) = 1 THEN Atoi(rs.str[1])
           ELSE [ok |-> FALSE, n |-> 0])

\* a Read that does not look at fr.done
frReadAgain(st, fr, len, k, z) ==
  IF fr.chunkRem = 0 THEN frToken(st, fr, len, k, z, ReadString(st))
  ELSE frChunk(st, fr, fr.chunkRem, len, k, z)

\* FileReader.Read(dst) with len(dst) = len
frRead(st, fr, len, k, z) ==
  IF fr.done THEN [r |-> st, fr |-> fr, n |-> 0, data |-> <<>>, err |-> EOF]
  ELSE IF fr.chunkRem = 0 THEN frToken(st, fr, len, k, z, ReadString(st))
  ELSE frChunk(st, fr, fr.chunkRem, len, k, z)

\* Reader.Next returning false with an error; fs: the FileReaders handed out
\* so far
nextFail(s, fs, e) ==
  [r |-> [s EXCEPT !.err = e, !.fr = 0], frs |-> fs, ret |-> FALSE]

\* a Next that takes the sentinel for the end whatever follows it
nextEndLax(s3, fs, end) ==
  [r |-> IF s3.comp # "" THEN [s3 EXCEPT !.ncloses = @ + 1] ELSE s3,
   frs |-> fs, ret |-> FALSE]

\* Reader.Next after the sentinel: end is what the read of one byte returned
nextEnd(s3, fs, end) ==
  IF end.err # EOF THEN nextFail([s3 EXCEPT !.pos = @ + end.n], fs, ErrExcess)
  ELSE [r |-> IF s3.comp # "" THEN [s3 EXCEPT !.ncloses = @ + 1] ELSE s3,
        frs |-> fs, ret |-> FALSE]

\* a Next that takes a directory whose body has begun with a chunk
nextDirLax(fs, dr) ==
  IF dr.err \notin {NoErr, EOF} THEN nextFail(dr.r, fs, dr.err)
  ELSE [r |-> [dr.r EXCEPT !.fr = Len(fs) + 1], frs |-> Append(fs, dr.fr),
        ret |-> TRUE]

\* Reader.Next on a directory: dr is what fr.Read(nil) returned
nextDir(fs, dr) ==
  IF dr.err = NoErr THEN nextFail(dr.r, fs, ErrDirBody)
  ELSE IF dr.err # EOF THEN nextFail(dr.r, fs, dr.err)
  ELSE [r |-> [dr.r EXCEPT !.fr = Len(fs) + 1], frs |-> Append(fs, dr.fr),
        ret |-> TRUE]

\* a Next that does not record that it has met the sentinel
nextEntryOpen(s2, fs, z, ph) ==
  IF ~ph.ok THEN nextFail(s2, fs, ErrJson)
  ELSE IF ph.hdr.path = <<NUL>>
    THEN nextEnd(s2, fs, StreamRead(s2, 1, 1, z))
  ELSE IF IsDirMode(ph.hdr.mode)
    THEN nextDir(fs, frRead(s2, [hdr |-> ph.hdr, done |-> FALSE, chunkRem |-> 0],
                            0, 1, z))
  ELSE [r |-> [s2 EXCEPT !.fr = Len(fs) + 1],
        frs |-> Append(fs, [hdr |-> ph.hdr, done |-> FALSE, chunkRem |-> 0]),
        ret |-> TRUE]

\* Reader.Next once the header has been read: ph is what Unmarshal gave
nextEntry(s2, fs, z, ph) ==
  IF ~ph.ok THEN nextFail(s2, fs, ErrJson)
  ELSE IF ph.hdr.path = <<NUL>>
    THEN nextEnd([s2 EXCEPT !.closed = TRUE], fs,
                 StreamRead([s2 EXCEPT !.closed = TRUE], 1, 1, z))
  ELSE IF IsDirMode(ph.hdr.mode)
    THEN nextDir(fs, frRead(s2, [hdr |-> ph.hdr, done |-> FALSE, chunkRem |-> 0],
                            0, 1, z))
  ELSE [r |-> [s2 EXCEPT !.fr = Len(fs) + 1],
        frs |-> Append(fs, [hdr |-> ph.hdr, done |-> FALSE, chunkRem |-> 0]),
        ret |-> TRUE]

\* Reader.Next from the read of the header on: rs is what ReadString returned
nextHeader(s1, fs, z, rs) ==
  IF ~rs.ok THEN nextFail([s1 EXCEPT !.pos = rs.pos], fs, MapEOF(rs.err))
  ELSE nextEntry([s1 EXCEPT !.pos = rs.pos], fs, z, ParseFileHeader(rs.str))

\* a Next that reads a header whether or not the entry before it is finished
RdNextAnyTime(st, fs, z) ==
  IF st.closed THEN [r |-> [st EXCEPT !.fr = 0, !.err = NoErr], frs |-> fs,
                     ret |-> FALSE]
  ELSE nextHeader([st EXCEPT !.fr = 0, !.err = NoErr, !.ready = FALSE], fs, z,
                  ReadString(st))

\* a Next that keeps the error of the call before it
RdNextKeepErr(st, fs, z) ==
  IF st.closed THEN [r |-> [st EXCEPT !.fr = 0], frs |-> fs, ret |-> FALSE]
  ELSE IF ~st.ready
    THEN [r |-> [st EXCEPT !.fr = 0, !.err = ErrNotReady], frs |-> fs,
          ret |-> FALSE]
  ELSE nextHeader([st EXCEPT !.fr = 0, !.ready = FALSE], fs, z, ReadString(st))

\* Reader.Next
RdNext(st, fs, z) ==
  IF st.closed THEN [r |-> [st EXCEPT !.fr = 0, !.err = NoErr], frs |-> fs,
                     ret |-> FALSE]
  ELSE IF ~st.ready
    THEN [r |-> [st EXCEPT !.fr = 0, !.err = ErrNotReady], frs |-> fs,
          ret |-> FALSE]
  ELSE nextHeader([st EXCEPT !.fr = 0, !.err = NoErr, !.ready = FALSE], fs, z,
                  ReadString(st))

(***************************************************************************)
(* The Reader's calls.  The source is what the Writer's sink holds once    *)
(* Writer.Close has been called: all of it ("exact"), a proper prefix of   *)
(* it ("cut"), or all of it and one more byte ("extra").  r.lax records    *)
(* that the caller has followed the loop for r.Next() { drain r.File() }   *)
(* and has stopped at the first failure, except that it may have called    *)
(* Next before the entry was drained and then gone on draining the entry;  *)
(* r.early records that it has done so, r.failed that a Next has failed    *)
(* for another reason, r.hit that a Next or a Read has met the end of the  *)
(* source inside a record or a record that does not parse.  A source may   *)
(* also be the sink with one symbol replaced ("forged").                   *)
(***************************************************************************)
ReadSizes == { 1, 2 }
Junk == { "x" }

\* the truncation and the format errors
Broken == { ErrUnexpectedEOF, ErrJson, ErrAtoi }

\* what may stand in the place of a symbol of the sink: another number or a
\* word that is no number for a number, another name for the algorithm
Swap(t) == IF t = "gzip" THEN { "zip" }
           ELSE IF Atoi(t).ok THEN { "1", "-5", "x" } \ { t }
           ELSE {}

Forged(sink) ==
  { [src |-> sink, how |-> "exact"] }
  \cup UNION { { [src |-> [sink EXCEPT ![i] = t], how |-> "forged"] :
                   t \in Swap(sink[i]) } : i \in DOMAIN sink }

Whole(sink) ==
  { [src |-> sink, how |-> "exact"] }
  \cup { [src |-> Append(sink, j), how |-> "extra"] : j \in Junk }

Cuts(sink) ==
  { [src |-> SubSeq(sink, 1, k), how |-> "cut"] : k \in 0..(Len(sink) - 1) }

\* what a read into an empty slice may report: nil, or at the end of the
\* stream (which then ends with the NUL of a chunk length) the pending error
EmptyReads(st) ==
  IF st.plain # <<>> /\ st.plain[Len(st.plain)] = NUL THEN {"nil", "end"}
  ELSE {"nil"}

Stopped ==
  \/ rlast.op = "NewReader" /\ rlast.err # NoErr
  \/ rlast.op = "Next" /\ ~rlast.ret /\ rlast.err # ErrNotReady
  \/ rlast.op = "Read" /\ rlast.err \notin {NoErr, EOF}

RNewReader(S) ==
  /\ w.made /\ w.closed /\ ~r.made /\ rlast.op = "none"
  /\ \E s \in S : \E res \in { NewReaderOf(s.src) } :
       /\ r' = IF res.err = NoErr THEN [res.r EXCEPT !.how = s.how]
                ELSE [NoReader EXCEPT !.src = s.src, !.how = s.how]
       /\ rlast' = [NoRLast EXCEPT !.op = "NewReader", !.err = res.err]
  /\ UNCHANGED <<wvars, frs, pipe>>

\* a FileReader without what the model adds to it (the body read through it)
Held(f) == [hdr |-> f.hdr, done |-> f.done, chunkRem |-> f.chunkRem]

\* the caller's view after a Next that gave res
Advance(res) ==
       /\ r' = [res.r EXCEPT
                    !.lax = r.lax /\ ~Stopped,
                    !.early = r.early \/ (~r.closed /\ ~r.ready),
                    !.failed = r.failed \/ (/\ ~res.ret
                                             /\ res.r.err \notin {NoErr, ErrNotReady}),
                    !.hit = r.hit \/ (~res.ret /\ res.r.err \in Broken)]
       /\ frs' = IF res.ret
                   THEN Append(frs, [hdr |-> res.frs[Len(res.frs)].hdr,
                                    done |-> res.frs[Len(res.frs)].done,
                                    chunkRem |-> res.frs[Len(res.frs)].chunkRem,
                                    body |-> <<>>])
                   ELSE frs
       /\ rlast' = [NoRLast EXCEPT !.op = "Next", !.ret = res.ret,
                      !.err = res.r.err, !.h = res.r.fr]

RNext ==
  /\ r.made
  /\ \E z \in EmptyReads(r) :
     \E res \in { RdNext(r, [i \in DOMAIN frs |-> Held(frs[i])], z) } :
       Advance(res)
  /\ UNCHANGED <<wvars, pipe>>

\* the caller's view after a Read on FileReader h that gave res
Fill(h, res) ==
       /\ r' = [res.r EXCEPT !.lax = r.lax /\ ~Stopped /\ h = Len(frs),
                               !.hit = r.hit \/ res.err \in Broken]
       /\ frs' = [frs EXCEPT ![h].done = res.fr.done,
                    ![h].chunkRem = res.fr.chunkRem,
                    ![h].body = @ \o res.data]
       /\ rlast' = [NoRLast EXCEPT !.op = "Read", !.h = h, !.n = res.n,
                      !.err = res.err]

RRead(h, len) ==
  /\ r.made /\ h \in DOMAIN frs
  /\ \E k \in 1..len : \E res \in { frRead(r, Held(frs[h]), len, k, "nil") } :
       Fill(h, res)
  /\ UNCHANGED <<wvars, pipe>>

(***************************************************************************)
(* Specifications.  SpecW: every call sequence on a Writer.  Spec: a       *)
(* Writer used as documented (one entry at a time, legal paths, nothing    *)
(* after Close) except that Close may come while an entry is open, then a  *)
(* Reader on the bytes of the sink, used in any order.                     *)
(***************************************************************************)
Entries == { [path |-> <<"a">>, opts |-> [perm |-> [dir |-> FALSE, bits |-> 0],
                                          user |-> <<>>, group |-> <<>>]],
             [path |-> <<"xFF">>, opts |-> [perm |-> [dir |-> FALSE, bits |-> 420],
                                            user |-> <<"u">>, group |-> <<"g">>]] }

Documented ==
  /\ ~w.closed
  /\ proto' \/ wlast'.op = "Close"

Next ==
  \/ \E c \in Algos : NewWriter(c)
  \/ \E e \in Entries : WFile(e.path, e.opts) /\ Documented
  \/ \E e \in Entries : WDirectory(e.path, e.opts) /\ Documented
  \/ \E h \in DOMAIN fws, d \in Datas : FwWrite(h, d) /\ Documented
  \/ \E h \in DOMAIN fws : FwClose(h) /\ Documented
  \/ WClose /\ Documented
  \/ RNewReader(Whole(Sink(w)))
  \/ RNext
  \/ \E h \in DOMAIN frs, len \in ReadSizes : RRead(h, len)

Spec == Init /\ [][Next]_vars

\* a Writer used as documented, then a Reader on a proper prefix of the sink
NextCut ==
  \/ \E c \in Algos : NewWriter(c)
  \/ \E e \in Entries : WFile(e.path, e.opts) /\ proto'
  \/ \E e \in Entries : WDirectory(e.path, e.opts) /\ proto'
  \/ \E h \in DOMAIN fws, d \in Datas : FwWrite(h, d) /\ proto'
  \/ \E h \in DOMAIN fws : FwClose(h) /\ proto'
  \/ WClose /\ proto'
  \/ RNewReader(Cuts(Sink(w)))
  \/ RNext
  \/ \E h \in DOMAIN frs, len \in ReadSizes : RRead(h, len)

SpecCut == Init /\ [][NextCut]_vars

\* a Writer used as documented, then a Reader on the sink with one symbol
\* replaced
NextForged ==
  \/ \E c \in Algos : NewWriter(c)
  \/ \E e \in Entries : WFile(e.path, e.opts) /\ proto'
  \/ \E e \in Entries : WDirectory(e.path, e.opts) /\ proto'
  \/ \E h \in DOMAIN fws, d \in Datas : FwWrite(h, d) /\ proto'
  \/ \E h \in DOMAIN fws : FwClose(h) /\ proto'
  \/ WClose /\ proto'
  \/ RNewReader(Forged(Sink(w)))
  \/ RNext
  \/ \E h \in DOMAIN frs, len \in ReadSizes : RRead(h, len)

SpecForged == Init /\ [][NextForged]_vars

(***************************************************************************)
(* A Writer and a Reader on the two ends of an io.Pipe, each in its own    *)
(* goroutine.  A Write on the pipe returns when the reading end has taken  *)
(* all its bytes, so a Writer call that has flushed returns, and the       *)
(* writing goroutine goes on, only then; a Reader call that needs bytes    *)
(* the pipe does not hold waits for them or for the pipe to be closed.     *)
(* pipe.recv is how many symbols of the sink the reading end has taken,    *)
(* pipe.closed that the writing end has been closed.  While the pipe is    *)
(* open the end of the Reader's source is not known: r.pend is Await.      *)
(***************************************************************************)
Await == "await"

\* what the reading end has taken, when it has taken n symbols
Taken(n) == SubSeq(Sink(w), 1, n)

\* the writing goroutine can make a call: the call before it has returned
Returned == ~pipe.closed /\ pipe.recv = Len(Sink(w))

\* the writing goroutine has enough calls left to finish the open entry and
\* to close the stream
Finishable ==
  nops + (IF w.closed THEN 0 ELSE IF w.writing THEN 2 ELSE 1) <= MaxOps

\* the reading goroutine has left its loop
Left ==
  \/ rlast.op = "NewReader" /\ rlast.err # NoErr
  \/ rlast.op = "Next" /\ ~rlast.ret
  \/ rlast.op = "Read" /\ rlast.err \notin {NoErr, EOF}

\* the Reader's stream when the reading end has taken n symbols
Refill(n) ==
  IF ~r.made THEN r
  ELSE [r EXCEPT !.src = Taken(n), !.plain = NewReaderOf(Taken(n)).r.plain]

\* pw.Close()
PClose ==
  /\ w.made /\ w.closed /\ Returned
  /\ pipe' = [pipe EXCEPT !.closed = TRUE]
  /\ r' = IF r.made THEN [r EXCEPT !.pend = NewReaderOf(Sink(w)).r.pend] ELSE r
  /\ UNCHANGED <<wvars, frs, rlast>>

\* a Read on the reading end of the pipe, made by the bufio.Reader or by the
\* decompressor for a call of the reading goroutine
PRead(n) ==
  /\ ~Left /\ pipe.recv + n <= Len(Sink(w))
  /\ pipe' = [pipe EXCEPT !.recv = @ + n]
  /\ r' = Refill(pipe.recv + n)
  /\ UNCHANGED <<wvars, frs, rlast>>

\* NewReader(pr)
PNewReader ==
  /\ ~r.made /\ rlast.op = "none"
  /\ \E res \in { NewReaderOf(Taken(pipe.recv)) } :
       /\ pipe.closed \/ res.err \notin {EOF, ErrUnexpectedEOF}
       /\ r' = IF res.err # NoErr THEN [NoReader EXCEPT !.src = Taken(pipe.recv)]
                ELSE IF pipe.closed THEN res.r
                ELSE [res.r EXCEPT !.pend = Await]
       /\ rlast' = [NoRLast EXCEPT !.op = "NewReader", !.err = res.err]
  /\ UNCHANGED <<wvars, frs, pipe>>

\* the call that gave res does not depend on how the source ends: it
\* returns without waiting for the pipe
Settled(res, known) == pipe.closed \/ [res EXCEPT !.r.pend = EOF] = known

\* r.Next() in the loop of the reading goroutine
PNext ==
  /\ r.made /\ ~Left
  /\ rlast.op = "NewReader" \/ (rlast.op = "Read" /\ rlast.err = EOF)
  /\ \E z \in EmptyReads(r) :
     \E res \in { RdNext(r, [i \in DOMAIN frs |-> Held(frs[i])], z) } :
       /\ Settled(res, RdNext([r EXCEPT !.pend = EOF],
                              [i \in DOMAIN frs |-> Held(frs[i])], z))
       /\ Advance(res)
  /\ UNCHANGED <<wvars, pipe>>

\* io.Copy(&buf, r.File()): one Read of it
PCopy(len) ==
  /\ r.made /\ ~Left /\ frs # <<>>
  /\ (rlast.op = "Next" /\ rlast.ret) \/ (rlast.op = "Read" /\ rlast.err = NoErr)
  /\ \E k \in 1..len :
     \E res \in { frRead(r, Held(frs[Len(frs)]), len, k, "nil") } :
       /\ Settled(res, frRead([r EXCEPT !.pend = EOF], Held(frs[Len(frs)]),
                              len, k, "nil"))
       /\ Fill(Len(frs), res)
  /\ UNCHANGED <<wvars, pipe>>

\* the calls of the writing goroutine
PWriter ==
  /\ Returned
  /\ \/ \E e \in Entries : WFile(e.path, e.opts)
     \/ \E e \in Entries : WDirectory(e.path, e.opts)
     \/ \E h \in DOMAIN fws, d \in Datas : FwWrite(h, d)
     \/ \E h \in DOMAIN fws : FwClose(h)
     \/ WClose
  /\ proto' /\ Finishable'

NextPipe ==
  \/ \E c \in Supported \cup {""} : NewWriter(c)
  \/ PWriter
  \/ PClose
  \/ \E n \in 1..BufSize : PRead(n)
  \/ PNewReader
  \/ PNext
  \/ \E len \in ReadSizes : PCopy(len)

\* both goroutines are scheduled as long as they can take a step
SpecPipe == Init /\ [][NextPipe]_vars /\ WF_vars(NextPipe)

(***************************************************************************)
(* Properties of the Writer.                                               *)
(***************************************************************************)
CountTok(t, s) == Cardinality({i \in DOMAIN s : s[i] = t})

Record(hdr) == EncFileHeader(hdr) \o <<NUL>>

Terminator == <<"0", NUL>>

\* a step that is a call of File or Directory made while an entry is open
RefusedStep ==
  /\ nops' = nops + 1
  /\ wlast'.op \in {"File", "Directory"}
  /\ w.writing

\* the last call was a Write or Close on the entry that was open, on a stream
\* that was open, after a File or Directory call had been refused
AfterRefusal ==
  /\ wlast.op \in {"Write", "EntryClose"}
  /\ wlast.h \in DOMAIN fws
  /\ fws[wlast.h].rej
  /\ wlast.pw /\ ~wlast.after
  /\ wlast.h = Len(fws)
  /\ ~HasNul(fws[wlast.h].hdr.path)

\* C3: while an entry is open, File and Directory return an error, emit
\* nothing and change nothing of the Writer or of the open entry; a Write or
\* Close then made on the open entry succeeds.
C3_Sequencing ==
  /\ [][RefusedStep => /\ wlast'.err = ErrSequencing
                       /\ wlast'.emit = <<>>
                       /\ w' = w
                       /\ \A h \in DOMAIN fws :
                            /\ fws'[h].started = fws[h].started
                            /\ fws'[h].wire = fws[h].wire
                            /\ fws'[h].done = fws[h].done
                       /\ Len(fws') = Len(fws)]_vars
  /\ [](AfterRefusal => wlast.err = NoErr)

C3_Witness == AfterRefusal /\ wlast.op = "EntryClose" /\ wlast.err = NoErr

\* C5: an entry whose path holds 0x00 is refused when it is opened, with the
\* illegal-path error, and nothing is ever emitted for it.
C5_PathSafety ==
  /\ (/\ wlast.op \in {"File", "Directory"}
      /\ wlast.h \in DOMAIN fws
      /\ HasNul(fws[wlast.h].hdr.path)) => wlast.err = ErrIllegalPath
  /\ \A h \in DOMAIN fws : HasNul(fws[h].hdr.path) => fws[h].wire = <<>>

\* the last call was the first Write or Close of an entry with a legal path,
\* on an open stream
FirstUse ==
  /\ wlast.op \in {"Write", "EntryClose"}
  /\ wlast.fresh /\ ~wlast.after
  /\ ~HasNul(fws[wlast.h].hdr.path)

\* C7: File emits nothing; the first Write (of any length) or else Close of
\* an entry emits its header record, no later call emits a header, so an
\* entry's output is its header once and then chunks; File then Close emits
\* the header and the zero-length chunk and nothing else.
C7_DeferredHeader ==
  /\ wlast.op = "File" => wlast.emit = <<>>
  /\ FirstUse => /\ wlast.err = NoErr
                 /\ IsPrefix(Record(fws[wlast.h].hdr), wlast.emit)
  /\ (wlast.op \in {"Write", "EntryClose"} /\ ~wlast.fresh)
        => CountTok("{", wlast.emit) = 0
  /\ (FirstUse /\ wlast.op = "EntryClose")
        => wlast.emit = Record(fws[wlast.h].hdr) \o Terminator
  /\ \A h \in DOMAIN fws :
        ~HasNul(fws[h].hdr.path) =>
           \/ fws[h].wire = <<>>
           \/ /\ IsPrefix(Record(fws[h].hdr), fws[h].wire)
              /\ CountTok("{", fws[h].wire) = 1

C7_Witness ==
  /\ FirstUse /\ wlast.op = "EntryClose"
  /\ wlast.emit = Record(fws[wlast.h].hdr) \o Terminator

\* C9: every call made after Writer.Close fails with the stream-closed error.
C9_UseAfterClose == wlast.after => wlast.err = ErrClosed

\* C18: a successful Write of n > 0 bytes emits (after the header record, if
\* it is the entry's first call) exactly one chunk record, the decimal n,
\* 0x00 and the n bytes, and reports n; a Write of zero bytes emits no chunk
\* record, so that no Write emits the zero-length chunk.
C18_OneChunk ==
  [][(nops' = nops + 1 /\ wlast'.op = "Write" /\ wlast'.err = NoErr) =>
       LET h == wlast'.h
           hd == IF wlast'.fresh THEN Record(fws[h].hdr) ELSE <<>>
           d == SubSeq(fws'[h].body, Len(fws[h].body) + 1, Len(fws'[h].body))
       IN /\ wlast'.n = Len(d)
          /\ wlast'.emit = hd \o (IF d # <<>> THEN <<Itoa(Len(d)), NUL>> \o d
                                   ELSE <<>>)
          /\ fws'[h].wire = fws[h].wire \o wlast'.emit]_vars

C18_Witness ==
  /\ wlast.op = "Write" /\ wlast.err = NoErr /\ ~wlast.fresh
  /\ wlast.n = 2 /\ wlast.emit = <<"2", NUL, "0", NUL>>
  /\ fws[wlast.h].done = FALSE
  /\ Len(fws[wlast.h].body) = 3

(***************************************************************************)
(* Properties of the Writer and the Reader together.                       *)
(***************************************************************************)
Entry(hdr, body) ==
  [path |-> hdr.path, dir |-> hdr.mode.dir, bits |-> hdr.mode.bits,
   user |-> hdr.user, group |-> hdr.group, body |-> body]

\* the entries written, and the entries read
Written == [i \in DOMAIN fws |-> Entry(fws[i].hdr, fws[i].body)]
Got == [i \in DOMAIN frs |-> Entry(frs[i].hdr, frs[i].body)]

\* the consumer has followed the loop, and never called Next early
Disc == r.lax /\ ~r.early

\* the Reader reads all the bytes of a stream that was produced as documented
WellFormed == proto /\ w.closed /\ r.how = "exact"

\* the last call was a Next that returned false
NextFalse == rlast.op = "Next" /\ ~rlast.ret

\* C1: a stream produced as documented and consumed with the loop reads
\* back as the entries written, in order, and then Next returns false with
\* a nil Err.
C1_RoundTrip ==
  (WellFormed /\ Disc) =>
     /\ rlast.op = "NewReader" => rlast.err = NoErr
     /\ rlast.op = "Read" => rlast.err \in {NoErr, EOF}
     /\ NextFalse => rlast.err = NoErr /\ Got = Written

\* C2: on a proper prefix of a well-formed stream, the loop never ends with
\* Next returning false and a nil Err.
C2_Truncation ==
  (proto /\ r.how = "cut" /\ Disc /\ NextFalse) => rlast.err # NoErr

C2_Witness ==
  /\ proto /\ r.made /\ r.how = "cut" /\ Disc /\ NextFalse
  /\ rlast.err = ErrUnexpectedEOF
  /\ Len(frs) > 0 /\ frs[1].done /\ frs[1].body # <<>>

\* a step that is a call of Next made before the entry is drained
EarlyNext == r.made /\ ~r.closed /\ ~r.ready /\ rlast'.op = "Next"

\* C4: a Next made before the entry is drained returns false with the
\* not-ready error, consumes nothing and changes no FileReader; the entry
\* then still reads to the end as written, and the Next after it advances.
C4_ReaderSequencing ==
  /\ [][EarlyNext => /\ ~rlast'.ret /\ rlast'.err = ErrNotReady
                     /\ r'.pos = r.pos /\ r'.ready = r.ready
                     /\ r'.closed = r.closed /\ frs' = frs]_vars
  /\ []((r.lax /\ r.early /\ r.how = "exact") =>
          /\ \A h \in DOMAIN frs :
                /\ h \in DOMAIN fws
                /\ IsPrefix(frs[h].body, fws[h].body)
                /\ frs[h].done => frs[h].body = fws[h].body
          /\ (WellFormed /\ NextFalse) => rlast.err \in {NoErr, ErrNotReady})

C4_Witness ==
  /\ r.made /\ r.lax /\ r.early /\ WellFormed
  /\ rlast.op = "Next" /\ rlast.ret
  /\ Len(frs) = 2 /\ frs[1].done
  /\ frs[1].body = fws[1].body /\ frs[1].body # <<>>

\* C6: Writer.Close with an entry open returns ErrWriteInterrupted, and the
\* loop over the bytes that reached the sink ends with the unexpected-EOF
\* error, never with a clean end.
C6_ScenarioC ==
  /\ (wlast.op = "Close" /\ wlast.pw /\ ~wlast.after)
        => wlast.err = ErrWriteInterrupted
  /\ (/\ wlast.op = "Close" /\ wlast.err = ErrWriteInterrupted
      /\ r.how = "exact" /\ Disc /\ Stopped) => rlast.err = ErrUnexpectedEOF

\* C8: whatever the Write calls and the read sizes, what has been read of a
\* body from the bytes of the sink is a prefix of the body written, and all
\* of it once Read has returned EOF.
C8_Granularity ==
  (Disc /\ r.how = "exact") => \A h \in DOMAIN frs :
            /\ h \in DOMAIN fws
            /\ IsPrefix(frs[h].body, fws[h].body)
            /\ frs[h].done => frs[h].body = fws[h].body

C8_Witness ==
  /\ r.made /\ Disc /\ WellFormed
  /\ \E h \in DOMAIN frs :
       /\ frs[h].done /\ rlast.op = "Read" /\ rlast.err = EOF
       /\ frs[h].body = <<"x", "0", NUL>>

\* C19: when the source ends inside a record, the call that meets the end
\* (NewReader, Next or Read) reports the unexpected-EOF error and never the
\* plain end of file, which Read reports only at the end of an entry's body.
C19_TruncationKind ==
  (proto /\ r.how = "cut" /\ r.src # <<>>) =>
     /\ rlast.op = "NewReader" => rlast.err \in {NoErr, ErrUnexpectedEOF}
     /\ rlast.op = "Next" => rlast.err # EOF
     /\ (rlast.op = "Read" /\ rlast.err = EOF) => frs[rlast.h].done

\* the stream the Reader was given ends with the sentinel record and the
\* decompressor, if any, ended without error
EndsClean ==
  LET rec == Record(Sentinel)
      n == Len(r.plain)
  IN /\ n >= Len(rec)
     /\ SubSeq(r.plain, n - Len(rec) + 1, n) = rec
     /\ r.pend = EOF

\* C10: Next returns false with a nil Err only at a clean end (the sentinel
\* parsed, nothing after it, the decompressor closed), and never after a
\* Next that has failed.
C10_CleanEnd ==
  (r.made /\ NextFalse /\ rlast.err = NoErr) =>
     /\ r.closed /\ r.pos = Len(r.plain) /\ EndsClean
     /\ r.comp # "" => r.ncloses > 0
     /\ ~r.failed

\* C11: once Next or Read has reported a truncation or a format error, no
\* later Next returns true, whatever Read calls are made in between.
C11_StickyError == (rlast.op = "Next" /\ rlast.ret) => ~r.hit

\* C12: a Next that returns true for a header with the directory bit has
\* consumed the zero-length terminator that follows the header at once, and
\* leaves the Reader ready, so that the Next after it meets no sequencing
\* error; when a chunk of positive length follows such a header, Next
\* returns false with an error.
C12_Directory ==
  /\ []((/\ rlast.op = "Next" /\ rlast.ret
         /\ frs[rlast.h].hdr.mode.dir /\ rlast.h = Len(frs))
          => /\ frs[rlast.h].done /\ frs[rlast.h].body = <<>>
             /\ r.ready
             /\ r.pos > 2 /\ r.plain[r.pos - 2] = NUL
             /\ SubSeq(r.plain, r.pos - 1, r.pos) = Terminator)
  /\ [][(/\ rlast.op = "Next" /\ rlast.ret
          /\ frs[rlast.h].hdr.mode.dir
          /\ rlast'.op = "Next") => rlast'.err # ErrNotReady]_vars
  /\ [][LET rs == ReadString(r)
            ph == ParseFileHeader(rs.str)
            ln == ReadString([r EXCEPT !.pos = rs.pos])
        IN (/\ r.made /\ r.ready /\ ~r.closed /\ rlast'.op = "Next"
            /\ rs.ok /\ ph.ok /\ ph.hdr.mode.dir /\ ph.hdr.path # <<NUL>>
            /\ ln.ok /\ Len(ln.str) = 1 /\ Atoi(ln.str[1]).n > 0)
              => /\ ~rlast'.ret
                 /\ rlast'.err \notin {NoErr, ErrNotReady, Panic}]_vars

C12_Witness ==
  /\ r.made /\ r.how = "forged"
  /\ rlast.op = "Next" /\ ~rlast.ret /\ rlast.err = ErrDirBody
  /\ Len(frs) = 1 /\ frs[1].hdr.mode.dir /\ frs[1].done /\ frs[1].body = <<>>

\* C14: NewWriter asked for an algorithm that is neither gzip nor lz4 returns
\* the unsupported-algorithm error, makes no Writer and writes nothing;
\* NewReader on a stream header that names such an algorithm returns the
\* error and makes no Reader.
C14_Unsupported ==
  /\ (wlast.op = "NewWriter" /\ wlast.arg \notin {"", "gzip", "lz4"})
        => /\ wlast.err = ErrUnsupported
           /\ ~w.made /\ w.out = <<>> /\ Sink(w) = <<>>
  /\ w.made => w.comp \in {"", "gzip", "lz4"}
  /\ (/\ rlast.op = "NewReader"
      /\ \E i \in 1..(Len(r.src) - 1) :
            r.src[i] = "compression:" /\ r.src[i + 1] \notin {"gzip", "lz4"})
        => rlast.err = ErrUnsupported /\ ~r.made
  /\ r.made => r.comp \in {"", "gzip", "lz4"}

C14_Witness ==
  /\ rlast.op = "NewReader" /\ rlast.err = ErrUnsupported /\ ~r.made
  /\ r.how = "forged" /\ w.comp = "gzip"
  /\ \E i \in DOMAIN r.src : r.src[i] = "zip"

\* C15: NewReader returns an error and no Reader for a stream header whose
\* version is above 0, and takes every header whose version is 0 or less;
\* the Writer always emits version 0.
C15_VersionGate ==
  /\ w.made => SubSeq(w.out, 1, 3) = <<"{", "version:", "0">>
  /\ (rlast.op = "NewReader" /\ Len(r.src) >= 3 /\ r.src[2] = "version:"
        /\ Atoi(r.src[3]).ok
        /\ SubSeq(r.src, 4, Len(r.src)) = SubSeq(Sink(w), 4, Len(Sink(w))))
        => IF Atoi(r.src[3]).n > 0
             THEN rlast.err = ErrVersion /\ ~r.made
             ELSE rlast.err = NoErr /\ r.made

C15_Witness ==
  /\ rlast.op = "NewReader" /\ rlast.err = ErrVersion /\ ~r.made
  /\ r.how = "forged" /\ SubSeq(r.src, 1, 3) = <<"{", "version:", "1">>

\* C13: on a compressed stream, what reaches the raw sink outside the
\* wrapper is exactly the stream header record and its 0x00, it reaches the
\* sink before anything the wrapper emits, and every later byte goes through
\* the wrapper; NewReader takes the stream header from the raw source and
\* hands what follows it to the decompressor.
C13_Boundary ==
  /\ []((w.made /\ w.comp # "") =>
         LET hd == EncStreamHeader(0, w.comp) \o <<NUL>>
             n == Len(hd)
             zl == IF w.zend > 0 THEN w.zend ELSE w.flushed
         IN /\ w.direct = n /\ SubSeq(w.out, 1, n) = hd
            /\ IsPrefix(hd, Sink(w))
            /\ Len(Sink(w)) > n =>
                  /\ Sink(w)[n + 1] = "ZH"
                  /\ IsPrefix(SubSeq(w.out, n + 1, zl),
                              SubSeq(Sink(w), n + 2, Len(Sink(w))))
            /\ \A i \in (zl + 2)..Len(Sink(w)) :
                  Sink(w)[i] \in {"ZT", "ZG"}
            /\ (r.made /\ r.how = "exact") =>
                  /\ r.comp = w.comp
                  /\ IsPrefix(hd, r.src)
                  /\ r.plain = SubSeq(w.out, n + 1, zl))
  /\ [][IsPrefix(Sink(w), Sink(w'))]_vars

C13_Witness ==
  /\ w.comp = "gzip" /\ w.zend > 0 /\ r.made /\ r.how = "exact"
  /\ rlast.op = "Read" /\ rlast.err = EOF /\ frs[rlast.h].body # <<>>
  /\ Got = Written

\* C17: with IncludeGroup, the group in the header of an encoded file is the
\* name of the group that the file's group id identifies, also when the
\* file's user id and group id differ.
C17_GroupLookup ==
  (wlast.op = "Encode" /\ wlast.arg.opts.group /\ ~wlast.after) =>
     /\ wlast.err = NoErr
     /\ fws[wlast.h].hdr.group = Groups[wlast.arg.file.gid]

\* C16: a Writer and a Reader on the two ends of a pipe both come to their
\* end under fair scheduling, the Reader has then read the entries written,
\* in order, and its last Next has returned false with a nil Err.  Both come
\* to their end when every step brings the run forward (no run goes on for
\* ever) and, until both have ended, one of the goroutines can take a step:
\* the writing one when its last call has returned, the reading one when the
\* pipe holds bytes it has not taken or has been closed.
C16_Pipe ==
  /\ [][nops' + pipe'.recv + Len(frs') + Len(r'.src)
          + (IF r'.made THEN 1 + r'.pos ELSE 0)
          + (IF rlast'.op = "none" THEN 0 ELSE 1)
          + (IF rlast'.op = "Read" /\ rlast'.err = EOF THEN 1 ELSE 0)
          + (IF w'.made THEN 1 ELSE 0) + (IF pipe'.closed THEN 1 ELSE 0)
        > nops + pipe.recv + Len(frs) + Len(r.src)
          + (IF r.made THEN 1 + r.pos ELSE 0)
          + (IF rlast.op = "none" THEN 0 ELSE 1)
          + (IF rlast.op = "Read" /\ rlast.err = EOF THEN 1 ELSE 0)
          + (IF w.made THEN 1 ELSE 0) + (IF pipe.closed THEN 1 ELSE 0)]_vars
  /\ [](\/ w.closed /\ pipe.closed /\ Left
        \/ ~w.made
        \/ Returned /\ Finishable
        \/ ~Left /\ pipe.recv < Len(Sink(w))
        \/ ~Left /\ pipe.closed)
  /\ [](Left => /\ rlast.op = "Next" /\ rlast.err = NoErr
                 /\ pipe.closed /\ Got = Written)

\* C20: a Read that finds a chunk length that is no non-negative decimal
\* returns an error and no bytes, does not panic, and leaves no FileReader
\* with a negative count of bytes left in its chunk.
C20_ChunkLength ==
  /\ rlast.op \in {"Next", "Read"} => rlast.err # Panic
  /\ \A h \in DOMAIN frs : frs[h].chunkRem >= 0

\* the fields of the Reader that the code holds (without what the model adds
\* to it), with the position in the source
Core(x) == [ready |-> x.ready, closed |-> x.closed, err |-> x.err, fr |-> x.fr,
            pos |-> x.pos, ncloses |-> x.ncloses, plain |-> x.plain,
            pend |-> x.pend]

\* C21: the Read that parses a zero-length chunk returns end-of-file with no
\* bytes, marks the entry done and makes the Reader ready for Next; every
\* later Read on that FileReader returns end-of-file with no bytes, consumes
\* nothing of the source and changes nothing of the Reader or of any
\* FileReader, also after Next has gone on to later entries.
C21_EndOfBody ==
  /\ [][\A h \in DOMAIN frs :
          (rlast'.op = "Read" /\ rlast'.h = h /\ ~frs[h].done /\ frs'[h].done)
            => /\ rlast'.err = EOF /\ rlast'.n = 0
               /\ frs'[h].body = frs[h].body
               /\ r'.ready
               /\ r'.pos > 1
               /\ SubSeq(r'.plain, r'.pos - 1, r'.pos) = Terminator]_vars
  /\ [][\A h \in DOMAIN frs :
          (r.made /\ r'.made /\ rlast'.op = "Read" /\ rlast'.h = h /\ frs[h].done
             /\ w' = w /\ pipe' = pipe)
            => /\ rlast'.err = EOF /\ rlast'.n = 0
               /\ Core(r') = Core(r)
               /\ [i \in DOMAIN frs' |-> Held(frs'[i])]
                    = [i \in DOMAIN frs |-> Held(frs[i])]
               /\ frs'[h].body = frs[h].body]_vars

C21_Witness ==
  /\ r.made /\ r.how = "exact" /\ Len(frs) = 2
  /\ rlast.op = "Read" /\ rlast.h = 1 /\ rlast.err = EOF /\ rlast.n = 0
  /\ frs[1].done /\ frs[1].body # <<>>
  /\ r.pos > 8

\* C22: a first Writer.Close with no entry open emits the sentinel record,
\* flushes the framing buffer and then closes the wrapper: the call succeeds,
\* what it emits is the sentinel record alone, nothing stays in the buffer,
\* and the wrapper's trailer comes after every framed byte, the sentinel
\* record the last of them; the wrapper is never closed with framed bytes in
\* the buffer.
C22_CloseOrder ==
  /\ [][(nops' = nops + 1 /\ wlast'.op = "Close" /\ ~w.writing /\ ~w.closed)
          => /\ wlast'.err = NoErr
             /\ wlast'.emit = Record(Sentinel)
             /\ w'.out = w.out \o Record(Sentinel)
             /\ Buffered(w') = 0
             /\ w.comp = "" => Sink(w') = w'.out
             /\ w.comp # "" =>
                  /\ w.ncloses = 0 /\ w'.ncloses = 1
                  /\ Sink(w') = SubSeq(w'.out, 1, w'.direct) \o <<"ZH">>
                                \o SubSeq(w'.out, w'.direct + 1, Len(w'.out))
                                \o <<"ZT">>]_vars
  /\ [][w'.ncloses > w.ncloses => Buffered(w') = 0]_vars

C22_Witness ==
  /\ wlast.op = "Close" /\ wlast.err = NoErr /\ ~wlast.pw /\ ~wlast.after
  /\ w.comp = "gzip" /\ w.ncloses = 1
  /\ Len(fws) = 1 /\ fws[1].done /\ fws[1].body # <<>>
  /\ Sink(w)[Len(Sink(w))] = "ZT"

\* C23: the Writer closes the compression wrapper at most once over every
\* sequence of calls, and once when the stream has been cleanly closed; the
\* Reader closes its decompressor at most once, and only once it has met
\* the sentinel.
C23_ClosedOnce ==
  /\ w.ncloses <= 1
  /\ (w.made /\ w.comp # "" /\ wlast.op = "Close" /\ wlast.err = NoErr)
        => w.ncloses = 1
  /\ r.made => /\ r.ncloses <= 1
               /\ r.ncloses > 0 => r.closed

\* C24: once the Close of an entry writer has succeeded, every Write of
\* data that is not empty and every Close made through it returns an error,
\* emits nothing and changes nothing of the Writer, whether no entry is open
\* or a newer one is; no entry's output or body grows, and no entry ends,
\* through the writer of an older entry.
C24_StaleWriter ==
  /\ [](\A h \in DOMAIN fws : fws[h].done =>
          /\ \A d \in Datas \ {<<>>} :
               /\ fwWrite(w, fws[h], d).err # NoErr
               /\ fwWrite(w, fws[h], d).w = w
          /\ fwClose(w, fws[h]).err # NoErr
          /\ fwClose(w, fws[h]).w = w)
  /\ [][\A h \in DOMAIN fws :
          (/\ nops' = nops + 1 /\ wlast'.op \in {"Write", "EntryClose"}
           /\ wlast'.h = h /\ fws[h].done)
            => /\ wlast'.emit = <<>> /\ w' = w
               /\ \/ wlast'.err # NoErr
                  \/ wlast'.op = "Write" /\ wlast'.n = 0
               /\ \A k \in DOMAIN fws :
                    /\ fws'[k].wire = fws[k].wire
                    /\ fws'[k].body = fws[k].body
                    /\ fws'[k].done = fws[k].done]_vars

C24_Witness ==
  /\ wlast.op = "Write" /\ wlast.err = ErrFileClosed /\ wlast.emit = <<>>
  /\ wlast.h = 1 /\ fws[1].done /\ Len(fws) = 2
  /\ wlast.pw /\ ~wlast.after /\ w.writing /\ w.curFile = 2
  /\ fws[2].started /\ ~fws[2].done

\* C25: once Next has parsed the sentinel record the Reader is closed, and
\* from then on every Next returns false, File() is nil after it, and no call
\* reads anything more of the source or reopens the Reader.
C25_Finished ==
  /\ []((/\ r.made
         /\ \E e \in {0, 1} :
              /\ r.pos - e >= Len(Record(Sentinel))
              /\ SubSeq(r.plain, r.pos - e - Len(Record(Sentinel)) + 1, r.pos - e)
                   = Record(Sentinel))
          => r.closed)
  /\ [][(r.made /\ r.closed /\ r'.made)
          => /\ r'.closed /\ r'.pos = r.pos /\ r'.ncloses = r.ncloses
             /\ rlast'.op = "Next" => /\ ~rlast'.ret /\ rlast'.h = 0
                                      /\ r'.fr = 0 /\ frs' = frs]_vars

C25_Witness ==
  /\ r.made /\ r.closed /\ r.how = "extra" /\ r.failed
  /\ rlast.op = "Next" /\ ~rlast.ret /\ rlast.err = NoErr /\ r.fr = 0
  /\ Len(frs) = 1 /\ frs[1].body # <<>>

\* C26: the Next that parses the sentinel returns false with an error when
\* a byte follows the sentinel record in the stream it reads, and returns
\* false with a nil Err only when the sentinel record is the end of that
\* stream and the stream ends with end-of-file.
C26_Excess ==
  [][(r.made /\ ~r.closed /\ r'.made /\ r'.closed /\ rlast'.op = "Next")
       => /\ ~rlast'.ret
          /\ ReadString(r).ok
          /\ ReadString(r).pos < Len(r.plain) => rlast'.err = ErrExcess
          /\ rlast'.err = NoErr => /\ ReadString(r).pos = Len(r.plain)
                                   /\ r.pend = EOF
                                   /\ r'.pos = Len(r.plain)]_vars

C26_Witness ==
  /\ r.made /\ r.closed /\ r.how = "extra" /\ r.comp = ""
  /\ rlast.op = "Next" /\ ~rlast.ret /\ rlast.err = ErrExcess
  /\ r.pos = Len(r.plain) /\ r.plain[r.pos] = "x" /\ r.plain[r.pos - 1] = NUL
  /\ Len(frs) = 1 /\ frs[1].done

\* C27: when a Write or a Close of an entry has returned without error,
\* every byte the framing layer has emitted has left its buffer for the sink
\* or the compression wrapper.
C27_NoBuffering ==
  (wlast.op \in {"Write", "EntryClose"} /\ wlast.err = NoErr)
     => /\ Buffered(w) = 0
        /\ w.comp = "" => Sink(w) = w.out

\* C28: the sentinel header is emitted only by a Writer.Close made while no
\* entry is open; a Writer.Close made while an entry is open returns
\* ErrWriteInterrupted and emits nothing, and after it no call emits a
\* sentinel or anything else, nor lets anything more reach the sink: the
\* stream stays closed with its entry open and without a sentinel.
C28_SentinelOnlyComplete ==
  /\ []((\E i \in DOMAIN wlast.emit : wlast.emit[i] = "u0000")
          => wlast.op = "Close" /\ ~wlast.pw)
  /\ []((wlast.op = "Close" /\ wlast.pw)
          => /\ wlast.err = ErrWriteInterrupted /\ wlast.emit = <<>>
             /\ w.closed /\ w.writing)
  /\ []((wlast.op = "Close" /\ wlast.pw /\ ~wlast.after)
          => CountTok("u0000", w.out) = 0)
  /\ [][(w.closed /\ w.writing)
          => /\ w'.closed /\ w'.writing
             /\ w'.out = w.out /\ Sink(w') = Sink(w)
             /\ nops' = nops + 1 => wlast'.emit = <<>>]_vars

C28_Witness ==
  /\ wlast.op = "Close" /\ wlast.err = ErrWriteInterrupted
  /\ wlast.pw /\ wlast.after /\ nops = 5
  /\ Len(fws) = 1 /\ fws[1].started /\ fws[1].body # <<>> /\ ~fws[1].done
  /\ CountTok("u0000", w.out) = 0

\* C29: after every call of Next, File() is non-nil exactly when the call
\* returned true, and then it is the FileReader the call has opened; Err()
\* is non-nil only when the call returned false; Err() is that of the last
\* Next alone: a Next on a finished Reader leaves it nil whatever the Next
\* before it reported, and no Read changes File() or Err().
C29_Agreement ==
  /\ [](r.made =>
          /\ rlast.op = "Next" =>
               /\ r.fr # 0 <=> rlast.ret
               /\ rlast.ret => r.fr = Len(frs)
               /\ r.err # NoErr => ~rlast.ret
               /\ rlast.err = r.err /\ rlast.h = r.fr
          /\ rlast.op = "NewReader" => r.fr = 0 /\ r.err = NoErr)
  /\ [][(r.made /\ r'.made /\ rlast'.op = "Next" /\ r.closed) => r'.err = NoErr]_vars
  /\ [][(r.made /\ r'.made /\ rlast'.op = "Read")
          => r'.fr = r.fr /\ r'.err = r.err]_vars

C29_Witness ==
  /\ r.made /\ r.how = "exact" /\ r.early
  /\ rlast.op = "Next" /\ rlast.ret /\ r.fr = 2 /\ Len(frs) = 2 /\ r.err = NoErr
  /\ frs[1].done /\ frs[1].body # <<>>

(***************************************************************************)
(* The grammar of the framing output: the stream header record, then       *)
(* entries (a file header record, chunks of positive length, the chunk of  *)
(* length zero), then the sentinel record and nothing more.  Each operator *)
(* says whether s, from position i on, is the beginning of such a stream   *)
(* that stops between two records.                                         *)
(***************************************************************************)
RECURSIVE EntriesFrom(_, _), ChunksFrom(_, _)

\* s from i on: entries, then the sentinel
EntriesFrom(s, i) ==
  IF i > Len(s) THEN TRUE
  ELSE IF s[i] # "{" \/ \A j \in i..Len(s) : s[j] # NUL THEN FALSE
  ELSE LET j == MinOf({ k \in i..Len(s) : s[k] = NUL })
           ph == ParseFileHeader(SubSeq(s, i, j - 1))
       IN /\ ph.ok /\ s[j - 1] = LF
          /\ IF ph.hdr.path = <<NUL>> THEN j = Len(s)
             ELSE ~HasNul(ph.hdr.path) /\ ChunksFrom(s, j + 1)

\* s from i on: the chunks of an entry, then what follows the entry
ChunksFrom(s, i) ==
  IF i > Len(s) THEN TRUE
  ELSE IF i + 1 > Len(s) \/ s[i + 1] # NUL \/ ~Atoi(s[i]).ok THEN FALSE
  ELSE IF Atoi(s[i]).n < 0 THEN FALSE
  ELSE IF Atoi(s[i]).n = 0 THEN EntriesFrom(s, i + 2)
  ELSE /\ i + 1 + Atoi(s[i]).n <= Len(s)
       /\ ChunksFrom(s, i + 2 + Atoi(s[i]).n)

\* s is the beginning of a well-formed stream
StreamPrefix(s) ==
  /\ \E j \in DOMAIN s : s[j] = NUL
  /\ LET j == MinOf({ k \in DOMAIN s : s[k] = NUL })
     IN /\ s[1] = "{" /\ s[j - 1] = LF
        /\ ParseStreamHeader(SubSeq(s, 1, j - 1)).ok
        /\ EntriesFrom(s, j + 1)

\* every sequence of calls on a Writer in which no path holds 0x00 and
\* Writer.Close is called at most once
NextOnce ==
  \/ \E c \in Algos : NewWriter(c)
  \/ \E p \in Paths \ { <<NUL>> }, o \in FileOpts : WFile(p, o)
  \/ \E p \in Paths \ { <<NUL>> }, o \in FileOpts : WDirectory(p, o)
  \/ \E h \in DOMAIN fws, d \in Datas : FwWrite(h, d)
  \/ \E h \in DOMAIN fws : FwClose(h)
  \/ WClose /\ ~w.closed

SpecOnce == Init /\ [][NextOnce]_vars

\* C30: whatever calls are made on a Writer, failing ones among them, with
\* paths that hold no 0x00 and at most one Writer.Close, what the framing
\* layer has emitted is at every moment the beginning of a well-formed
\* stream: the stream header, entries of one file header, chunks of positive
\* length and one chunk of length zero, then at most one sentinel header and
\* nothing after it.
C30_WireGrammar == w.made => StreamPrefix(w.out)

C30_Witness ==
  /\ wlast.op = "Close" /\ wlast.err = NoErr /\ ~wlast.pw /\ w.comp = "gzip"
  /\ Len(fws) = 1 /\ fws[1].done /\ fws[1].body = <<"0", NUL, "x">>
  /\ StreamPrefix(w.out) /\ CountTok("u0000", w.out) = 1

====
